---------------------------- MODULE Spec2Model ----------------------------
(***************************************************************************)
(* Model of src/streamlit_app.py: the password gate, the SQL extraction    *)
(* applied to the LLM reply, and the session-state driven page flow        *)
(* (generate -> review/edit -> run -> history).                            *)
(*                                                                         *)
(* Texts are sequences of characters (one-character strings), so that the  *)
(* regular expressions and str.strip() are computed character by           *)
(* character.  Python's None is the value None below.                      *)
(***************************************************************************)
EXTENDS Naturals, Sequences, FiniteSets

VARIABLES
    session_state,  \* st.session_state: a function from the keys present to their values
    conn_cache,     \* st.cache_resource entry of get_db_connection: "unset", "conn" or "none"
    event,          \* the widget event that triggered the last script run
    page,           \* what the last script run rendered
    io,             \* the LLM and database calls the last script run issued
    response_text,  \* argument of the last extract_sql_from_response call
    sql_query,      \* its result
    pc,             \* "ui" | "call" | "done": position of the extraction harness
    HASHED_PASSWORD, \* the configured bcrypt hash (environment variable)
    session         \* the browser session being served, numbered in order of arrival

vars == <<session_state, conn_cache, event, page, io, response_text, sql_query, pc,
          HASHED_PASSWORD, session>>

---------------------------------------------------------------------------
(* Characters and Python string helpers *)

None == <<"None">>

Upper == <<"A","B","C","D","E","F","G","H","I","J","K","L","M",
           "N","O","P","Q","R","S","T","U","V","W","X","Y","Z">>
Lower == <<"a","b","c","d","e","f","g","h","i","j","k","l","m",
           "n","o","p","q","r","s","t","u","v","w","x","y","z">>
Digits == {"0","1","2","3","4","5","6","7","8","9"}

\* str.lower() of an upper-case letter
LowerOf == [c \in {Upper[k] : k \in 1..26} |->
               Lower[CHOOSE k \in 1..26 : Upper[k] = c]]

\* re.IGNORECASE compares characters after case folding
Fold(c) == IF c \in DOMAIN LowerOf THEN LowerOf[c] ELSE c

WordChars == {Upper[k] : k \in 1..26} \cup {Lower[k] : k \in 1..26}
             \cup Digits \cup {"_"}

\* \s of the re module, and the characters str.strip() removes
IsSpace(c) == c \in {" ", "\n", "\t", "\r"}

\* \w of the re module
IsWord(c) == c \in WordChars

\* text[a-1:b-1] with 1-based inclusive positions a..b
Slice(text, a, b) == IF a > b THEN <<>> ELSE SubSeq(text, a, b)

AllSpace(text, a, b) == \A k \in a..b : IsSpace(text[k])

\* str.strip()
strip(text) ==
    IF AllSpace(text, 1, Len(text)) THEN <<>>
    ELSE LET first == CHOOSE a \in 1..Len(text) :
                          /\ ~IsSpace(text[a])
                          /\ AllSpace(text, 1, a - 1)
             last  == CHOOSE b \in 1..Len(text) :
                          /\ ~IsSpace(text[b])
                          /\ AllSpace(text, b + 1, Len(text))
         IN  SubSeq(text, first, last)

\* the literal lit matches text at position i
LitAt(text, i, lit, ignorecase) ==
    /\ i >= 1
    /\ i + Len(lit) - 1 <= Len(text)
    /\ \A k \in 1..Len(lit) :
          IF ignorecase THEN Fold(text[i + k - 1]) = Fold(lit[k])
                        ELSE text[i + k - 1] = lit[k]

\* the backquote character, written as a name
Backquote == "BACKQUOTE"

Fence == <<Backquote, Backquote, Backquote>>

---------------------------------------------------------------------------
(* extract_sql_from_response: the regular expressions, as the backtracking *)
(* matcher of the re module evaluates them                                 *)

\* the tail  \s*```  of both patterns matches at position e
TailAt(text, e) ==
    \E w \in 0..Len(text) :
        /\ LitAt(text, e + w, Fence, FALSE)
        /\ AllSpace(text, e, e + w - 1)

\* number of whitespace characters starting at position s
SpaceRun(text, s) ==
    IF s > Len(text) \/ ~IsSpace(text[s]) THEN 0
    ELSE LET stop == IF \E t \in s..Len(text) : ~IsSpace(text[t])
                     THEN CHOOSE t \in s..Len(text) :
                              ~IsSpace(text[t]) /\ AllSpace(text, s, t - 1)
                     ELSE Len(text) + 1
         IN  stop - s

\* opening\s*(.*?)\s*``` matches starting at position i
PatternAt(text, i, opening, ignorecase) ==
    /\ LitAt(text, i, opening, ignorecase)
    /\ \E k \in 0..SpaceRun(text, i + Len(opening)) :
          \E e \in (i + Len(opening) + k)..(Len(text) + 1) : TailAt(text, e)

\* group 1 of the match at i: the first \s* is greedy (the longest run of
\* whitespace from which the rest still matches), (.*?) is lazy (the shortest
\* group after which \s*``` matches)
GroupAt(text, i, opening) ==
    LET s0 == i + Len(opening)
        k  == CHOOSE k \in 0..SpaceRun(text, s0) :
                  /\ \E e \in (s0 + k)..(Len(text) + 1) : TailAt(text, e)
                  /\ \A k2 \in (k + 1)..SpaceRun(text, s0) :
                        ~\E e \in (s0 + k2)..(Len(text) + 1) : TailAt(text, e)
        g  == s0 + k
        e  == CHOOSE e \in g..(Len(text) + 1) :
                  /\ TailAt(text, e)
                  /\ \A e2 \in g..(e - 1) : ~TailAt(text, e2)
    IN  Slice(text, g, e - 1)

\* re.findall(pattern, text, flags): <<>> when nothing matches, otherwise
\* <<matches[0]>>, the group of the leftmost match (the code reads no other)
findall(text, opening, ignorecase) ==
    IF \E i \in 1..Len(text) : PatternAt(text, i, opening, ignorecase)
    THEN LET i == CHOOSE i \in 1..Len(text) :
                      /\ PatternAt(text, i, opening, ignorecase)
                      /\ \A j \in 1..(i - 1) : ~PatternAt(text, j, opening, ignorecase)
         IN  <<GroupAt(text, i, opening)>>
    ELSE <<>>

\* sql_pattern = r"```sql\s*(.*?)\s*```", re.DOTALL | re.IGNORECASE
sql_pattern(text) == findall(text, Fence \o <<"s", "q", "l">>, TRUE)

\* code_pattern = r"```\s*(.*?)\s*```", re.DOTALL
code_pattern(text) == findall(text, Fence, FALSE)

Keywords == { <<"S","E","L","E","C","T">>, <<"W","I","T","H">>,
              <<"C","R","E","A","T","E">>, <<"I","N","S","E","R","T">>,
              <<"U","P","D","A","T","E">>, <<"D","E","L","E","T","E">> }

\* \b at the gap before position i
WordBoundary(text, i) ==
    LET before == i > 1 /\ i - 1 <= Len(text) /\ IsWord(text[i - 1])
        after  == i >= 1 /\ i <= Len(text) /\ IsWord(text[i])
    IN  before # after

\* \b(SELECT|WITH|CREATE|INSERT|UPDATE|DELETE)\b matches at position i
KeywordAt(text, i) ==
    \E kw \in Keywords :
        /\ LitAt(text, i, kw, TRUE)
        /\ WordBoundary(text, i)
        /\ WordBoundary(text, i + Len(kw))

\* mutant of sql_start: the search without re.IGNORECASE
sql_start_case_sensitive(text) ==
    LET At(i) == \E kw \in Keywords :
                     /\ LitAt(text, i, kw, FALSE)
                     /\ WordBoundary(text, i)
                     /\ WordBoundary(text, i + Len(kw))
    IN  IF \E i \in 1..Len(text) : At(i)
        THEN CHOOSE i \in 1..Len(text) : At(i) /\ \A j \in 1..(i - 1) : ~At(j)
        ELSE 0

\* re.search(...).start() + 1, or 0 when the search finds nothing
sql_start(text) ==
    IF \E i \in 1..Len(text) : KeywordAt(text, i)
    THEN CHOOSE i \in 1..Len(text) :
             KeywordAt(text, i) /\ \A j \in 1..(i - 1) : ~KeywordAt(text, j)
    ELSE 0

\* mutant of extract_sql_from_response: any fenced block is tried before the
\* tagged one
extract_generic_first(text) ==
    IF text = None \/ text = <<>> THEN None
    ELSE IF code_pattern(text) # <<>> THEN strip(code_pattern(text)[1])
    ELSE IF sql_pattern(text) # <<>> THEN strip(sql_pattern(text)[1])
    ELSE IF sql_start(text) # 0 THEN strip(Slice(text, sql_start(text), Len(text)))
    ELSE strip(text)

\* mutant of extract_sql_from_response: the keyword search is tried before
\* the generic fenced block
extract_keyword_first(text) ==
    IF text = None \/ text = <<>> THEN None
    ELSE IF sql_pattern(text) # <<>> THEN strip(sql_pattern(text)[1])
    ELSE IF sql_start(text) # 0 THEN strip(Slice(text, sql_start(text), Len(text)))
    ELSE IF code_pattern(text) # <<>> THEN strip(code_pattern(text)[1])
    ELSE strip(text)

\* mutant of extract_sql_from_response: no early return for an empty text
extract_no_empty_check(text) ==
    IF text = None THEN None
    ELSE IF sql_pattern(text) # <<>> THEN strip(sql_pattern(text)[1])
    ELSE IF code_pattern(text) # <<>> THEN strip(code_pattern(text)[1])
    ELSE IF sql_start(text) # 0 THEN strip(Slice(text, sql_start(text), Len(text)))
    ELSE strip(text)

\* lines 145-171
extract_sql_from_response(text) ==
    IF text = None \/ text = <<>> THEN None
    ELSE IF sql_pattern(text) # <<>> THEN strip(sql_pattern(text)[1])
    ELSE IF code_pattern(text) # <<>> THEN strip(code_pattern(text)[1])
    ELSE IF sql_start(text) # 0 THEN strip(Slice(text, sql_start(text), Len(text)))
    ELSE strip(text)

---------------------------------------------------------------------------
(* Inputs of the extraction: every text made of at most MaxPieces pieces *)

MaxPieces == 5

\* a fence, the tag, a keyword in upper and one in lower case, a word
\* character, whitespace
Pieces == { Fence,
            <<"s","q","l">>,
            <<"S","E","L","E","C","T">>,
            <<"w","i","t","h">>,
            <<"x">>,
            <<"\n">> }

RECURSIVE Flatten(_)
Flatten(ps) == IF ps = <<>> THEN <<>> ELSE Head(ps) \o Flatten(Tail(ps))

Texts == { Flatten(ps) : ps \in UNION { [1..n -> Pieces] : n \in 0..MaxPieces } }

---------------------------------------------------------------------------
(* Session state, Python truthiness, bcrypt *)

\* "key in st.session_state"
Has(ss, key) == key \in DOMAIN ss

\* st.session_state.key = value
Set(ss, key, value) ==
    [k \in DOMAIN ss \cup {key} |-> IF k = key THEN value ELSE ss[k]]

\* bool(text) for a str or None
Truthy(text) == text # None /\ text # <<>>

Salts == {"salt"}

\* bcrypt.hashpw(password, salt): the digest depends on the salt and the password
hashpw(password, salt) == [salt |-> salt, digest |-> <<salt, password>>]

\* bcrypt.checkpw(password, hashed): re-hashes the password with the salt of the
\* stored hash and compares; a stored hash without a valid salt raises ValueError
checkpw(password, hashed) ==
    IF hashed.salt \notin Salts THEN "raise"
    ELSE IF hashpw(password, hashed.salt) = hashed THEN "true"
    ELSE "false"

---------------------------------------------------------------------------
(* One script run.  R is the run in progress: the session state, the       *)
(* connection cache, the page rendered so far, the calls issued, and       *)
(* whether st.rerun() was raised.                                          *)

NoEvent == [click |-> "none"]

BlankPage == [screen |-> "none", msgs |-> {}, review |-> FALSE,
              history |-> <<>>, results |-> <<>>]

NoIO == [llm |-> <<>>, connects |-> 0, queries |-> <<>>]

Start(ss, cache) == [ss |-> ss, cache |-> cache, page |-> BlankPage,
                     io |-> NoIO, rerun |-> FALSE]

Show(R, level, text) ==
    [R EXCEPT !.page.msgs = @ \cup {[level |-> level, text |-> text]}]

\* mutant of login_screen: any non-empty password is accepted
login_screen_unchecked(R, ev, hashed) ==
    LET R0 == [R EXCEPT !.page.screen = "login"]
    IN  IF ev.click = "Login"
        THEN IF ev.password # ""
             THEN [Show(R0, "success", "Authentication successful")
                     EXCEPT !.ss = Set(R0.ss, "logged_in", TRUE),
                            !.rerun = TRUE]
             ELSE Show(R0, "warning", "Please enter a password")
        ELSE R0

\* lines 68-101
login_screen(R, ev, hashed) ==
    LET R0 == [R EXCEPT !.page.screen = "login"]
    IN  IF ev.click = "Login"
        THEN IF ev.password # ""
             THEN IF checkpw(ev.password, hashed) = "raise"
                  THEN Show(R0, "error", "Authentication error")
                  ELSE IF checkpw(ev.password, hashed) = "true"
                  THEN [Show(R0, "success", "Authentication successful")
                          EXCEPT !.ss = Set(R0.ss, "logged_in", TRUE),
                                 !.rerun = TRUE]
                  ELSE Show(R0, "error", "Incorrect Password")
             ELSE Show(R0, "warning", "Please enter a password")
        ELSE R0

\* mutant of must_login: only the absence of the flag is tested
must_login_if_absent(ss) == ~Has(ss, "logged_in")

\* line 105: the condition under which require_login shows the login screen
\* and stops the script
must_login(ss) == ~Has(ss, "logged_in") \/ ~ss.logged_in

\* mutant of logout: the flag is not reset
logout_keeps_flag(R, ev) ==
    IF ev.click = "Logout"
    THEN [Show(R, "success", "You have been logged out.") EXCEPT !.rerun = TRUE]
    ELSE R

\* mutant of logout: the query under review is dropped as well
logout_clears_review(R, ev) ==
    IF ev.click = "Logout"
    THEN [Show(R, "success", "You have been logged out.")
            EXCEPT !.ss = IF Has(R.ss, "generated_sql")
                          THEN Set(Set(R.ss, "logged_in", FALSE), "generated_sql", None)
                          ELSE Set(R.ss, "logged_in", FALSE),
                   !.rerun = TRUE]
    ELSE R

\* lines 220-223
logout(R, ev) ==
    IF ev.click = "Logout"
    THEN [Show(R, "success", "You have been logged out.")
            EXCEPT !.ss = Set(R.ss, "logged_in", FALSE), !.rerun = TRUE]
    ELSE R

\* lines 226-231
init_session_state(R) ==
    LET s1 == IF Has(R.ss, "query_history") THEN R.ss
              ELSE Set(R.ss, "query_history", <<>>)
        s2 == IF Has(s1, "generated_sql") THEN s1
              ELSE Set(s1, "generated_sql", None)
        s3 == IF Has(s2, "current_question") THEN s2
              ELSE Set(s2, "current_question", None)
    IN  [R EXCEPT !.ss = s3]

\* mutant of clear_history: current_question is not reset
clear_history_keeps_question(R, ev) ==
    IF ev.click = "Clear History"
    THEN [R EXCEPT !.ss = Set(Set(R.ss, "query_history", <<>>),
                              "generated_sql", None)]
    ELSE R

\* lines 244-248
clear_history(R, ev) ==
    IF ev.click = "Clear History"
    THEN [R EXCEPT !.ss = Set(Set(Set(R.ss, "query_history", <<>>),
                                  "generated_sql", None),
                              "current_question", None)]
    ELSE R

\* mutant of get_db_connection: without st.cache_resource, every call connects
get_db_connection_uncached(R, ext) ==
    LET R1 == [R EXCEPT !.cache = ext.connect, !.io.connects = @ + 1]
    IN  IF R1.cache = "none"
        THEN Show(R1, "error", "Failed to connect to database")
        ELSE R1

\* lines 119-127, under st.cache_resource: the body runs only when nothing is
\* cached, and whatever it returns (a connection or None) is cached, together
\* with the st.error it rendered, which a cache hit replays
get_db_connection(R, ext) ==
    LET R1 == IF R.cache = "unset"
              THEN [R EXCEPT !.cache = ext.connect, !.io.connects = @ + 1]
              ELSE R
    IN  IF R1.cache = "none"
        THEN Show(R1, "error", "Failed to connect to database")
        ELSE R1

NoDf == [is_none |-> TRUE, len |-> 0]

\* lines 130-140: the run after the call, and the DataFrame (or None)
run_query(R, sql, ext) ==
    LET R1 == get_db_connection(R, ext)
    IN  IF R1.cache = "none"
        THEN [R |-> R1, df |-> NoDf]
        ELSE LET R2 == [R1 EXCEPT !.io.queries = Append(@, sql)]
             IN  IF ext.query.raise
                 THEN [R |-> Show(R2, "error", "Error executing query"), df |-> NoDf]
                 ELSE [R |-> R2, df |-> [is_none |-> FALSE, len |-> ext.query.rows]]

\* lines 175-193: the run after the call, sql_query and raw_response
generate_sql_with_gpt(R, user_question, ext) ==
    LET R1 == [R EXCEPT !.io.llm = Append(@, [question |-> user_question,
                                               reply |-> ext.llm])]
    IN  IF ext.llm.raise
        THEN [R |-> Show(R1, "error", "Error calling OpenAI API"),
              sql_query |-> None, raw_response |-> None]
        ELSE [R |-> R1,
              sql_query |-> extract_sql_from_response(ext.llm.content),
              raw_response |-> ext.llm.content]

\* mutant of generate: generated_sql is not reset before the call
generate_keeps_old(R, ev, ext) ==
    IF ev.click = "Generate SQL" /\ Truthy(ev.user_question)
    THEN LET user_question == strip(ev.user_question)
             R1 == [R EXCEPT !.ss = Set(R.ss, "current_question", user_question)]
             G  == generate_sql_with_gpt(R1, user_question, ext)
         IN  IF Truthy(G.sql_query)
             THEN [Show(G.R, "success", "Query generated successfully!")
                     EXCEPT !.ss = Set(Set(G.R.ss, "generated_sql", G.sql_query),
                                       "raw_response", G.raw_response)]
             ELSE Show(G.R, "error", "No SQL query found in GPT response or an error occurred.")
    ELSE R

\* mutant of generate: the question is stored only with the SQL it produced
generate_question_on_success(R, ev, ext) ==
    IF ev.click = "Generate SQL" /\ Truthy(ev.user_question)
    THEN LET user_question == strip(ev.user_question)
             R1 == [R EXCEPT !.ss = Set(R.ss, "generated_sql", None)]
             G  == generate_sql_with_gpt(R1, user_question, ext)
         IN  IF Truthy(G.sql_query)
             THEN [Show(G.R, "success", "Query generated successfully!")
                     EXCEPT !.ss = Set(Set(Set(G.R.ss, "current_question", user_question),
                                           "generated_sql", G.sql_query),
                                       "raw_response", G.raw_response)]
             ELSE Show(G.R, "error", "No SQL query found in GPT response or an error occurred.")
    ELSE R

\* mutant of generate: the result is tested with "is not None", so that an
\* empty extraction is stored
generate_stores_empty(R, ev, ext) ==
    IF ev.click = "Generate SQL" /\ Truthy(ev.user_question)
    THEN LET user_question == strip(ev.user_question)
             R1 == [R EXCEPT !.ss = Set(Set(R.ss, "current_question", user_question),
                                        "generated_sql", None)]
             G  == generate_sql_with_gpt(R1, user_question, ext)
         IN  IF G.sql_query # None
             THEN [Show(G.R, "success", "Query generated successfully!")
                     EXCEPT !.ss = Set(Set(G.R.ss, "generated_sql", G.sql_query),
                                       "raw_response", G.raw_response)]
             ELSE Show(G.R, "error", "No SQL query found in GPT response or an error occurred.")
    ELSE R

\* lines 250-266
generate(R, ev, ext) ==
    IF ev.click = "Generate SQL" /\ Truthy(ev.user_question)
    THEN LET user_question == strip(ev.user_question)
             R1 == [R EXCEPT !.ss = Set(Set(R.ss, "current_question", user_question),
                                        "generated_sql", None)]
             G  == generate_sql_with_gpt(R1, user_question, ext)
         IN  IF Truthy(G.sql_query)
             THEN [Show(G.R, "success", "Query generated successfully!")
                     EXCEPT !.ss = Set(Set(G.R.ss, "generated_sql", G.sql_query),
                                       "raw_response", G.raw_response)]
             ELSE Show(G.R, "error", "No SQL query found in GPT response or an error occurred.")
    ELSE R

\* mutant of review_and_run: the entry is appended whether or not the query
\* returned a DataFrame
review_and_run_always_appends(R, ev, ext) ==
    IF Truthy(R.ss.generated_sql)
    THEN LET R1 == [R EXCEPT !.page.review = TRUE]
         IN  IF ev.click = "Run Query"
             THEN LET Q == run_query(R1, ev.edited_sql, ext)
                  IN  [Q.R EXCEPT !.ss = Set(Q.R.ss, "query_history",
                                     Append(Q.R.ss.query_history,
                                            [question |-> Q.R.ss.current_question,
                                             sql |-> ev.edited_sql,
                                             rows |-> Q.df.len]))]
             ELSE R1
    ELSE R

\* mutant of review_and_run: the Run Query click is served whether or not a
\* query is under review
review_and_run_unguarded(R, ev, ext) ==
    LET R1 == [R EXCEPT !.page.review = Truthy(R.ss.generated_sql)]
    IN  IF ev.click = "Run Query"
        THEN LET Q == run_query(R1, ev.edited_sql, ext)
             IN  IF ~Q.df.is_none
                 THEN [Show(Q.R, "success", "Query returned rows")
                         EXCEPT !.ss = Set(Q.R.ss, "query_history",
                                Append(Q.R.ss.query_history,
                                       [question |-> Q.R.ss.current_question,
                                        sql |-> ev.edited_sql,
                                        rows |-> Q.df.len])),
                                !.page.results = Append(@, Q.df)]
                 ELSE Q.R
        ELSE R1

\* mutant of review_and_run: the SQL as generated is run and recorded, not
\* the text of the review box
review_and_run_generated(R, ev, ext) ==
    IF Truthy(R.ss.generated_sql)
    THEN LET R1 == [R EXCEPT !.page.review = TRUE]
         IN  IF ev.click = "Run Query"
             THEN LET Q == run_query(R1, R1.ss.generated_sql, ext)
                  IN  IF ~Q.df.is_none
                      THEN [Show(Q.R, "success", "Query returned rows")
                              EXCEPT !.ss = Set(Q.R.ss, "query_history",
                                     Append(Q.R.ss.query_history,
                                            [question |-> Q.R.ss.current_question,
                                             sql |-> R1.ss.generated_sql,
                                             rows |-> Q.df.len])),
                                     !.page.results = Append(@, Q.df)]
                      ELSE Q.R
             ELSE R1
    ELSE R

\* lines 269-294
review_and_run(R, ev, ext) ==
    IF Truthy(R.ss.generated_sql)
    THEN LET R1 == [R EXCEPT !.page.review = TRUE]
         IN  IF ev.click = "Run Query"
             THEN LET Q == run_query(R1, ev.edited_sql, ext)
                  IN  IF ~Q.df.is_none
                      THEN [Show(Q.R, "success", "Query returned rows")
                              EXCEPT !.ss = Set(Q.R.ss, "query_history",
                                     Append(Q.R.ss.query_history,
                                            [question |-> Q.R.ss.current_question,
                                             sql |-> ev.edited_sql,
                                             rows |-> Q.df.len])),
                                     !.page.results = Append(@, Q.df)]
                      ELSE Q.R
             ELSE R1
    ELSE R

\* number of history entries shown (line 300)
HistoryShown == 5

\* mutant of LastShown: query_history[:5]
FirstShown(h) ==
    IF Len(h) <= HistoryShown THEN h ELSE SubSeq(h, 1, HistoryShown)

\* query_history[-5:]
LastShown(h) ==
    IF Len(h) <= HistoryShown THEN h ELSE SubSeq(h, Len(h) - HistoryShown + 1, Len(h))

\* reversed(...)
reversed(h) == [i \in 1..Len(h) |-> h[Len(h) + 1 - i]]

\* lines 297-308
show_history(R, ev, ext) ==
    IF R.ss.query_history # <<>>
    THEN LET items == reversed(LastShown(R.ss.query_history))
             R1 == [R EXCEPT !.page.history = items]
         IN  IF ev.click = "Re-run" /\ ev.idx < Len(items)
             THEN LET Q == run_query(R1, items[ev.idx + 1].sql, ext)
                  IN  IF ~Q.df.is_none
                      THEN [Q.R EXCEPT !.page.results = Append(@, Q.df)]
                      ELSE Q.R
             ELSE R1
    ELSE R

\* lines 198-308: main(), up to the end of the script, st.stop() or st.rerun()
main(R, ev, ext, hashed) ==
    IF must_login(R.ss)
    THEN login_screen(R, ev, hashed)
    ELSE CHOOSE r \in
           { IF R1.rerun
             THEN R1
             ELSE CHOOSE r5 \in
                    { show_history(R5, ev, ext) :
                        R5 \in { review_and_run(R4, ev, ext) :
                        R4 \in { generate(R3, ev, ext) :
                        R3 \in { clear_history(R2, ev) :
                        R2 \in { init_session_state(R1) } } } } } : TRUE :
             R1 \in { logout([R EXCEPT !.page.screen = "main"], ev) } } : TRUE

\* the script runs for the event, and st.rerun() runs it again at once, on the
\* updated session state, with a fresh page and no widget triggered
script(ss, cache, ev, ext, hashed) ==
    CHOOSE out \in
      { IF r.rerun
        THEN main([r EXCEPT !.page = BlankPage, !.rerun = FALSE], NoEvent, ext, hashed)
        ELSE r :
        r \in { main(Start(ss, cache), ev, ext, hashed) } } : TRUE

---------------------------------------------------------------------------
(* Inputs of the page: what the user types and what the LLM and the        *)
(* database answer                                                         *)

MaxHistory == 1

Passwords == {"", "secret", "guess"}

\* HASHED_PASSWORD as configured: the hash of the password, or a malformed value
Configured == { hashpw("secret", "salt"), [salt |-> "", digest |-> <<>>] }

\* the question box: empty, blank, a question with a leading space
Questions == { <<>>, <<" ">>, <<" ", "a">> }

\* message.content of the reply: None, blank, a tagged block, unfenced text
Replies == { None,
             <<"\n">>,
             Fence \o <<"s","q","l","\n","A","\n">> \o Fence,
             <<"B", " ">> }

Raised == [raise |-> TRUE, content |-> None]

LLMOutcomes == { Raised } \cup { [raise |-> FALSE, content |-> t] : t \in Replies }

\* what the user may leave in the review box: the text as generated, or an edit
Edits == { <<"x">> }

EditedSql(edits) ==
    edits \cup (IF Has(session_state, "generated_sql")
                   /\ Truthy(session_state.generated_sql)
                THEN {session_state.generated_sql} ELSE {})

\* a query raises, or returns len(df) rows
Failed == [raise |-> TRUE, rows |-> 0]

QueryOutcomes == { Failed } \cup { [raise |-> FALSE, rows |-> n] : n \in {0, 3} }

\* psycopg2.connect succeeds or raises; it is called only while nothing is cached
ConnectOutcomes == IF conn_cache = "unset" THEN {"conn", "none"} ELSE {"none"}

NoExt == [llm |-> Raised, connect |-> "none", query |-> Failed]

---------------------------------------------------------------------------
(* The page: one action per widget event, each a whole script run *)

Interact(ev, ext) ==
    \E r \in {script(session_state, conn_cache, ev, ext, HASHED_PASSWORD)} :
        /\ pc = "ui"
        /\ session_state' = r.ss
        /\ conn_cache' = r.cache
        /\ event' = ev
        /\ page' = r.page
        /\ io' = r.io
        /\ UNCHANGED <<response_text, sql_query, pc, HASHED_PASSWORD, session>>

\* a page load, or a text widget changed
Refresh == Interact(NoEvent, NoExt)

\* the Login clicks, one per content of the password box
LoginClicks == { [click |-> "Login", password |-> pw] : pw \in Passwords }

Login == \E ev \in LoginClicks : Interact(ev, NoExt)

Logout == Interact([click |-> "Logout"], NoExt)

\* the Generate SQL clicks, one per content of the question box
GenerateClicks ==
    { [click |-> "Generate SQL", user_question |-> q] : q \in Questions }

\* what the run of a Generate SQL click meets: the outcome of its LLM call
LLMAnswers == { [NoExt EXCEPT !.llm = l] : l \in LLMOutcomes }

GenerateSQL(questions, outcomes) ==
    \E ev \in { c \in GenerateClicks : c.user_question \in questions },
       ext \in { a \in LLMAnswers : a.llm \in outcomes } :
        Interact(ev, ext)

ClearHistory == Interact([click |-> "Clear History"], NoExt)

\* len(st.session_state.query_history), 0 while the key is absent
HistoryLen ==
    IF Has(session_state, "query_history") THEN Len(session_state.query_history) ELSE 0

\* the indices idx of the keys rerun_{idx} a click may carry: those of the
\* entries shown, and the next one (a button no longer on the page)
ReRunButtons == { i \in 0..(HistoryShown - 1) : i <= HistoryLen }

RunQuery(edits, outcomes) ==
    \E e \in EditedSql(edits), c \in ConnectOutcomes, q \in outcomes :
        Interact([click |-> "Run Query", edited_sql |-> e],
                 [NoExt EXCEPT !.connect = c, !.query = q])

ReRun(outcomes) ==
    \E idx \in ReRunButtons, c \in ConnectOutcomes, q \in outcomes :
        Interact([click |-> "Re-run", idx |-> idx],
                 [NoExt EXCEPT !.connect = c, !.query = q])

InitUI ==
    /\ session_state = [k \in {} |-> None]
    /\ conn_cache = "unset"
    /\ event = NoEvent
    /\ page = BlankPage
    /\ io = NoIO
    /\ sql_query = None
    /\ session = 1

Init ==
    /\ InitUI
    /\ pc = "ui"
    /\ response_text = None
    /\ HASHED_PASSWORD \in Configured

Next ==
    \/ Refresh
    \/ Login
    \/ Logout
    \/ GenerateSQL(Questions, LLMOutcomes)
    \/ ClearHistory
    \/ HistoryLen < MaxHistory /\ RunQuery(Edits, QueryOutcomes)
    \/ ReRun(QueryOutcomes)

Spec == Init /\ [][Next]_vars

---------------------------------------------------------------------------
(* The same page with one question, one reply and one row count, so that   *)
(* the history can grow past the HistoryShown entries the page shows       *)

MaxRuns == 6

OneQuestion == { <<" ", "a">> }

OneOutcome == { [raise |-> FALSE,
                 content |-> Fence \o <<"s","q","l","\n","A","\n">> \o Fence] }

OneResult == { Failed, [raise |-> FALSE, rows |-> 3] }

NextHistory ==
    \/ Refresh
    \/ Login
    \/ Logout
    \/ GenerateSQL(OneQuestion, OneOutcome)
    \/ ClearHistory
    \/ HistoryLen < MaxRuns /\ RunQuery(Edits, OneResult)
    \/ ReRun(OneResult)

SpecHistory == Init /\ [][NextHistory]_vars

---------------------------------------------------------------------------
(* The process serving one browser session after another: each has a       *)
(* session state of its own, the st.cache_resource entry is the process's  *)

MaxSessions == 2

\* a new browser session opens the page: its script runs on an empty
\* session state, with whatever the process has cached
NewSession ==
    \E r \in {script([k \in {} |-> None], conn_cache, NoEvent, NoExt, HASHED_PASSWORD)} :
        /\ pc = "ui"
        /\ session < MaxSessions
        /\ session' = session + 1
        /\ session_state' = r.ss
        /\ conn_cache' = r.cache
        /\ event' = NoEvent
        /\ page' = r.page
        /\ io' = r.io
        /\ UNCHANGED <<response_text, sql_query, pc, HASHED_PASSWORD>>

NextProcess ==
    \/ Refresh
    \/ Login
    \/ Logout
    \/ GenerateSQL(OneQuestion, OneOutcome)
    \/ ClearHistory
    \/ HistoryLen < MaxHistory /\ RunQuery(Edits, OneResult)
    \/ ReRun(OneResult)
    \/ NewSession

SpecProcess == Init /\ [][NextProcess]_vars

---------------------------------------------------------------------------
(* The extraction on its own: every text of Texts is given to               *)
(* extract_sql_from_response                                               *)

InitExtract ==
    /\ InitUI
    /\ pc = "call"
    /\ HASHED_PASSWORD = hashpw("secret", "salt")
    /\ response_text \in Texts \cup {None}

Extract ==
    /\ pc = "call"
    /\ sql_query' = extract_sql_from_response(response_text)
    /\ pc' = "done"
    /\ UNCHANGED <<session_state, conn_cache, event, page, io, response_text,
                   HASHED_PASSWORD, session>>

NextExtract == Extract

SpecExtract == InitExtract /\ [][NextExtract]_vars

---------------------------------------------------------------------------
(* What the extraction is to return, stated on the text itself *)

\* three backquotes start at position i
FenceAt(text, i) ==
    /\ i >= 1
    /\ i + 2 <= Len(text)
    /\ \A k \in 0..2 : text[i + k] = Backquote

\* a fence at i directly followed by the tag sql, in any letter case
TagAt(text, i) ==
    /\ FenceAt(text, i)
    /\ i + 5 <= Len(text)
    /\ text[i + 3] \in {"s", "S"}
    /\ text[i + 4] \in {"q", "Q"}
    /\ text[i + 5] \in {"l", "L"}

\* the block opened at i with an opening of n characters is closed by the
\* first fence after the opening, at j
ClosedAt(text, i, n, j) ==
    /\ j >= i + n
    /\ FenceAt(text, j)
    /\ \A m \in (i + n)..(j - 1) : ~FenceAt(text, m)

\* the sql-tagged blocks <<i, j>> of the text: tag at i, closing fence at j
SqlBlocks(text) ==
    UNION { { <<i, j>> : j \in { m \in (i + 6)..Len(text) : ClosedAt(text, i, 6, m) } } :
            i \in { n \in 1..Len(text) : TagAt(text, n) } }

\* the fenced blocks <<i, j>> of the text, tagged or not
FencedBlocks(text) ==
    UNION { { <<i, j>> : j \in { m \in (i + 3)..Len(text) : ClosedAt(text, i, 3, m) } } :
            i \in { n \in 1..Len(text) : FenceAt(text, n) } }

\* the block that starts first
FirstBlock(blocks) == CHOOSE b \in blocks : \A c \in blocks : b[1] <= c[1]

Blank(text) == \A k \in 1..Len(text) : text[k] \in {" ", "\n", "\t", "\r"}

\* r is text without its leading and trailing whitespace
IsTrimOf(r, text) ==
    /\ r = <<>> \/ (~Blank(<<r[1]>>) /\ ~Blank(<<r[Len(r)]>>))
    /\ \E a \in 0..Len(text) :
          /\ a + Len(r) <= Len(text)
          /\ Blank(Slice(text, 1, a))
          /\ Slice(text, a + 1, a + Len(r)) = r
          /\ Blank(Slice(text, a + Len(r) + 1, Len(text)))

WordChar(c) ==
    c \in {"a","b","c","d","e","f","g","h","i","j","k","l","m","n","o","p","q",
           "r","s","t","u","v","w","x","y","z",
           "A","B","C","D","E","F","G","H","I","J","K","L","M","N","O","P","Q",
           "R","S","T","U","V","W","X","Y","Z",
           "0","1","2","3","4","5","6","7","8","9","_"}

\* the word kw, in any letter case, stands at position i as a whole word
WordAt(text, i, kw) ==
    /\ i >= 1
    /\ i + Len(kw) - 1 <= Len(text)
    /\ \A k \in 1..Len(kw) :
          \E n \in 1..26 : /\ kw[k] = Upper[n]
                           /\ text[i + k - 1] \in {Upper[n], Lower[n]}
    /\ i = 1 \/ ~WordChar(text[i - 1])
    /\ i + Len(kw) > Len(text) \/ ~WordChar(text[i + Len(kw)])

Select == <<"S","E","L","E","C","T">>

SqlKeywords == { Select, <<"W","I","T","H">>, <<"C","R","E","A","T","E">>,
                 <<"I","N","S","E","R","T">>, <<"U","P","D","A","T","E">>,
                 <<"D","E","L","E","T","E">> }

\* the positions at which a SQL keyword stands
KeywordPositions(text) ==
    { i \in 1..Len(text) : \E kw \in SqlKeywords : WordAt(text, i, kw) }

SelectPositions(text) == { i \in 1..Len(text) : WordAt(text, i, Select) }

Least(S) == CHOOSE i \in S : \A j \in S : i <= j

NoFence(text) == \A i \in 1..Len(text) : ~FenceAt(text, i)

Called == pc = "done"

NonEmptyInput == response_text # None /\ response_text # <<>>

\* C3: when the text holds a fenced block tagged sql, the result is the
\* trimmed content of the first such block, whatever stands before it.
C3_TaggedBlock ==
    (Called /\ NonEmptyInput /\ SqlBlocks(response_text) # {}) =>
        LET b == FirstBlock(SqlBlocks(response_text))
        IN  IsTrimOf(sql_query, Slice(response_text, b[1] + 6, b[2] - 1))

\* C3 witness: a SQL keyword stands before the tagged block, and the content
\* of the tagged block is returned
C3_Witness ==
    /\ Called
    /\ NonEmptyInput
    /\ SqlBlocks(response_text) # {}
    /\ FirstBlock(SqlBlocks(response_text))[1] > 1
    /\ KeywordPositions(response_text) # {}
    /\ Least(KeywordPositions(response_text)) < FirstBlock(SqlBlocks(response_text))[1]
    /\ sql_query = <<"x">>

\* a fenced block, tagged or not, whose content is empty or whitespace
HasBlankBlock(text) ==
    \/ \E b \in FencedBlocks(text) : Blank(Slice(text, b[1] + 3, b[2] - 1))
    \/ \E b \in SqlBlocks(text) : Blank(Slice(text, b[1] + 6, b[2] - 1))

\* C4 as claimed: the result is null or empty if and only if the input is
\* empty.
C4_Original ==
    Called => ((sql_query = None \/ sql_query = <<>>) <=> ~NonEmptyInput)

\* C4 as amended: the result is null if and only if the input is empty; for a
\* non-empty input it is a string, which is empty only when the input is all
\* whitespace or holds a fenced block with blank content.
C4_NullOnlyForEmpty ==
    Called =>
        /\ sql_query = None <=> ~NonEmptyInput
        /\ (NonEmptyInput /\ sql_query = <<>>) =>
               Blank(response_text) \/ HasBlankBlock(response_text)

\* C4 witness: a non-empty input, all whitespace, gives the empty string
C4_Witness ==
    /\ Called
    /\ NonEmptyInput
    /\ Blank(response_text)
    /\ sql_query = <<>>

\* the case of C5: no fence, a SELECT that is not at the start of the text
ProseThenSelect ==
    /\ Called
    /\ NonEmptyInput
    /\ NoFence(response_text)
    /\ SelectPositions(response_text) # {}
    /\ Least(SelectPositions(response_text)) > 1

\* C5 as claimed: unfenced text that starts with prose and holds a SELECT
\* gives the text from the SELECT onward, trimmed.
C5_Original ==
    ProseThenSelect =>
        IsTrimOf(sql_query, Slice(response_text,
                                  Least(SelectPositions(response_text)),
                                  Len(response_text)))

\* C5 as amended: such a text gives the text from its first SQL keyword
\* (SELECT, WITH, CREATE, INSERT, UPDATE or DELETE as a whole word, in any
\* letter case) onward, trimmed, which is the text from the SELECT onward
\* when no such keyword stands in the prose before the SELECT.
C5_FromFirstKeyword ==
    ProseThenSelect =>
        /\ IsTrimOf(sql_query, Slice(response_text,
                                     Least(KeywordPositions(response_text)),
                                     Len(response_text)))
        /\ (\A i \in KeywordPositions(response_text) :
                i >= Least(SelectPositions(response_text)))
           => IsTrimOf(sql_query, Slice(response_text,
                                        Least(SelectPositions(response_text)),
                                        Len(response_text)))

\* C5 witness: prose, then SELECT, then more text, and the result starts at
\* the SELECT
C5_Witness ==
    /\ ProseThenSelect
    /\ response_text[1] = "x"
    /\ Least(KeywordPositions(response_text)) = Least(SelectPositions(response_text))
    /\ Len(sql_query) > Len(Select)
    /\ Slice(sql_query, 1, Len(Select)) = Select

\* C6: for a non-empty input the first applicable rule gives the result:
\* the first sql-tagged block, else the first fenced block, else the text
\* from the first SQL keyword, else the whole text; each trimmed.
C6_FallbackOrder ==
    (Called /\ NonEmptyInput) =>
        IF SqlBlocks(response_text) # {}
        THEN LET b == FirstBlock(SqlBlocks(response_text))
             IN  IsTrimOf(sql_query, Slice(response_text, b[1] + 6, b[2] - 1))
        ELSE IF FencedBlocks(response_text) # {}
        THEN LET b == FirstBlock(FencedBlocks(response_text))
             IN  IsTrimOf(sql_query, Slice(response_text, b[1] + 3, b[2] - 1))
        ELSE IF KeywordPositions(response_text) # {}
        THEN IsTrimOf(sql_query, Slice(response_text,
                                       Least(KeywordPositions(response_text)),
                                       Len(response_text)))
        ELSE IsTrimOf(sql_query, response_text)

\* C6 witness: a SQL keyword stands before a generic fenced block, and the
\* content of the block is returned
C6_Witness ==
    /\ Called
    /\ NonEmptyInput
    /\ SqlBlocks(response_text) = {}
    /\ FencedBlocks(response_text) # {}
    /\ KeywordPositions(response_text) # {}
    /\ Least(KeywordPositions(response_text)) < FirstBlock(FencedBlocks(response_text))[1]
    /\ sql_query = <<"x">>

---------------------------------------------------------------------------
(* What the page is to do, stated on the session state and on what a run   *)
(* rendered and called                                                     *)

LoggedIn == "logged_in" \in DOMAIN session_state /\ session_state.logged_in = TRUE

\* the value stored under a key, as a sequence of at most one value
Stored(key) ==
    IF key \in DOMAIN session_state THEN <<session_state[key]>> ELSE <<>>

query_history == IF Stored("query_history") = <<>> THEN <<>>
                 ELSE session_state.query_history

generated_sql == IF Stored("generated_sql") = <<>> THEN None
                 ELSE session_state.generated_sql

current_question == IF Stored("current_question") = <<>> THEN None
                    ELSE session_state.current_question

ErrorShown == \E m \in page.msgs : m.level = "error"

WarningShown == \E m \in page.msgs : m.level = "warning"

\* the last run issued no LLM call, no connect and no query
NoCalls == io.llm = <<>> /\ io.queries = <<>> /\ io.connects = 0

\* C1: while the session is not logged in, a run renders the login screen
\* only: whatever was clicked, it issues no LLM call and no database call,
\* and it leaves query_history, generated_sql and current_question as they
\* are; a run that logs in (a Login click) changes none that was stored.
C1_AuthGate ==
    [][ ~LoggedIn =>
          /\ NoCalls'
          /\ ~LoggedIn' =>
                /\ page'.screen = "login"
                /\ Stored("query_history")' = Stored("query_history")
                /\ Stored("generated_sql")' = Stored("generated_sql")
                /\ Stored("current_question")' = Stored("current_question")
          /\ LoggedIn' =>
                /\ event'.click = "Login"
                /\ \A key \in {"query_history", "generated_sql", "current_question"} :
                      Stored(key) # <<>> => Stored(key)' = Stored(key)
      ]_vars

\* C1 witness: logged out again with a history and a query under review
\* stored, Clear History was clicked, and both are still there
C1_Witness ==
    /\ ~LoggedIn
    /\ event.click = "Clear History"
    /\ page.screen = "login"
    /\ query_history # <<>>
    /\ generated_sql # None

\* the hash check of the password succeeds
CheckSucceeds(password) == checkpw(password, HASHED_PASSWORD) = "true"

\* C2 as claimed: a Login click with the correct password logs the session
\* in; with an incorrect one the session stays logged out and an error is
\* shown.
C2_Original ==
    [][ (~LoggedIn /\ event'.click = "Login") =>
          IF CheckSucceeds(event'.password)
          THEN LoggedIn'
          ELSE ~LoggedIn' /\ ErrorShown'
      ]_vars

\* C2 as amended: that holds for every non-empty password; an empty password
\* is not checked, the session stays logged out and a warning is shown, not
\* an error.
C2_LoginOutcome ==
    [][ (~LoggedIn /\ event'.click = "Login") =>
          IF event'.password = ""
          THEN ~LoggedIn' /\ WarningShown' /\ ~ErrorShown'
          ELSE IF CheckSucceeds(event'.password)
          THEN LoggedIn'
          ELSE ~LoggedIn' /\ ErrorShown' /\ ~WarningShown'
      ]_vars

\* C2 witness: the correct password was submitted and the main page is shown
C2_Witness ==
    /\ event.click = "Login"
    /\ event.password # ""
    /\ CheckSucceeds(event.password)
    /\ LoggedIn
    /\ page.screen = "main"

\* the last run was a Run Query click whose query returned a DataFrame
SuccessfulRun == event.click = "Run Query" /\ page.results # <<>>

\* view is the last min(Len(h), 5) entries of h, newest first
ShowsLatest(view, h) ==
    /\ Len(view) = (IF Len(h) < 5 THEN Len(h) ELSE 5)
    /\ \A i \in 1..Len(view) : view[i] = h[Len(h) + 1 - i]

\* C7: each successful Run Query adds its entry at the end of the stored
\* history, no other step but Clear History changes the history, so that
\* after N successful runs it holds the N entries in order; and the history
\* the page shows is the last min(N, 5) of them, newest first.
C7_HistorySize ==
    [][ /\ SuccessfulRun' =>
              query_history' = Append(query_history,
                                      [question |-> current_question,
                                       sql |-> event'.edited_sql,
                                       rows |-> page'.results[1].len])
        /\ (~SuccessfulRun' /\ event'.click # "Clear History") =>
              query_history' = query_history
        /\ page'.screen = "main" => ShowsLatest(page'.history, query_history')
      ]_vars

\* C7 witness: the sixth successful run: six entries are stored, five are
\* shown, the newest first, and it differs from the one before it
C7_Witness ==
    /\ SuccessfulRun
    /\ Len(query_history) = 6
    /\ Len(page.history) = 5
    /\ page.history[1] = query_history[6]
    /\ page.history[5] = query_history[2]
    /\ query_history[6] # query_history[5]

\* the history gained exactly one entry, at its end
OneAppended(h, h2) == Len(h2) = Len(h) + 1 /\ SubSeq(h2, 1, Len(h)) = h

\* C8 as claimed: in every step the history is unchanged or gains one entry
\* at its end, the latter only in a successful Run Query; no action removes
\* or changes an entry.
C8_Original ==
    [][ \/ query_history' = query_history
        \/ SuccessfulRun' /\ OneAppended(query_history, query_history')
      ]_vars

\* C8 as amended: that holds in every step but a Clear History click of a
\* logged-in session, which removes all entries.
C8_AppendOnlyUntilCleared ==
    [][ IF LoggedIn /\ event'.click = "Clear History"
        THEN query_history' = <<>>
        ELSE \/ query_history' = query_history
             \/ SuccessfulRun' /\ OneAppended(query_history, query_history')
      ]_vars

\* C8 witness: a successful run has added an entry to a non-empty history
C8_Witness ==
    /\ SuccessfulRun
    /\ Len(query_history) >= 2
    /\ io.queries = <<query_history[Len(query_history)].sql>>

\* the last run was a Generate SQL click with a non-empty question box, on
\* the main page: a generation was requested
GenerationRequested ==
    /\ event.click = "Generate SQL"
    /\ event.user_question # <<>>
    /\ page.screen = "main"

\* the SQL extracted from the reply of the last run: None when the call
\* raised or nothing was extracted
NewSql ==
    LET reply == io.llm[1].reply
    IN  IF reply.raise THEN None
        ELSE IF extract_sql_from_response(reply.content) = <<>> THEN None
        ELSE extract_sql_from_response(reply.content)

\* C9: after a requested generation, which calls the LLM once, generated_sql
\* is the SQL extracted from the new reply, or null when there is none:
\* never the SQL of an earlier generation.
C9_GenerationClears ==
    GenerationRequested =>
        /\ Len(io.llm) = 1
        /\ generated_sql = NewSql

\* C9 witness: a generation that failed after an earlier one had succeeded
\* (its raw_response is still stored): generated_sql is null
C9_Witness ==
    /\ GenerationRequested
    /\ LoggedIn
    /\ Stored("raw_response") # <<>>
    /\ NewSql = None
    /\ generated_sql = None

\* C10: a Clear History click of a logged-in session leaves the history
\* empty and generated_sql and current_question null, the review section is
\* not rendered, and the session stays logged in.
C10_ClearHistory ==
    [][ (LoggedIn /\ event'.click = "Clear History") =>
          /\ Stored("query_history")' = << <<>> >>
          /\ Stored("generated_sql")' = <<None>>
          /\ Stored("current_question")' = <<None>>
          /\ ~page'.review
          /\ page'.screen = "main"
          /\ LoggedIn'
      ]_vars

\* C10 witness: Clear History was clicked after a generation had succeeded
\* (its raw_response is still stored), and nothing is under review
C10_Witness ==
    /\ LoggedIn
    /\ event.click = "Clear History"
    /\ Stored("raw_response") # <<>>
    /\ query_history = <<>>
    /\ generated_sql = None
    /\ current_question = None
    /\ ~page.review

\* a query is under review in a logged-in session: the next run renders the
\* review section with its Run Query button
UnderReview == LoggedIn /\ generated_sql # None /\ generated_sql # <<>>

\* the last run was a Run Query click on the review section that got no
\* DataFrame: the connection was unavailable or the execution raised
FailedRun == event.click = "Run Query" /\ page.review /\ page.results = <<>>

\* C11 as claimed: a Run Query click that fails shows an error, leaves
\* logged_in, current_question, generated_sql and query_history as they were
\* and renders the review section again; and the Run Query click after a
\* failed one sends its query to the database, so that a valid query runs.
C11_QueryFailureNonFatal ==
    [][ /\ (UnderReview /\ FailedRun') =>
              /\ ErrorShown'
              /\ \A key \in {"logged_in", "current_question", "generated_sql",
                              "query_history"} : Stored(key)' = Stored(key)
              /\ page'.review
        /\ (UnderReview /\ FailedRun /\ event'.click = "Run Query") =>
              io'.queries = <<event'.edited_sql>>
      ]_vars

\* C11, the part the code keeps: the failure is shown, the four keys are
\* unchanged and the review section is rendered again.
C11_FailureCaught ==
    [][ (UnderReview /\ FailedRun') =>
          /\ ErrorShown'
          /\ \A key \in {"logged_in", "current_question", "generated_sql",
                          "query_history"} : Stored(key)' = Stored(key)
          /\ page'.review
      ]_vars

\* C11 witness: a Run Query click failed for want of a connection right after
\* another had failed: no query was sent
C11_Witness ==
    /\ LoggedIn
    /\ FailedRun
    /\ ErrorShown
    /\ io.connects = 0
    /\ io.queries = <<>>

\* C12: a logged-in session stays logged in through every run but that of a
\* Logout click, whatever the LLM and the database answer, and a Logout click
\* logs it out.
C12_StayLoggedIn ==
    [][ LoggedIn => (LoggedIn' <=> event'.click # "Logout") ]_vars

\* C12 witness: still logged in after a generation whose LLM call raised, with
\* a history stored
C12_Witness ==
    /\ LoggedIn
    /\ event.click = "Generate SQL"
    /\ io.llm # <<>>
    /\ io.llm[1].reply.raise
    /\ ErrorShown
    /\ query_history # <<>>

\* the SQL a generation gets from a reply of the LLM: None when the call
\* raised or nothing was extracted
SqlOf(reply) ==
    IF reply.raise THEN None
    ELSE IF extract_sql_from_response(reply.content) = <<>> THEN None
    ELSE extract_sql_from_response(reply.content)

\* the run to come is a Generate SQL click of a logged-in session with a
\* non-empty question box whose LLM call raises or yields no SQL
FailedGeneration ==
    /\ LoggedIn
    /\ event'.click = "Generate SQL"
    /\ event'.user_question # <<>>
    /\ io'.llm # <<>>
    /\ \E reply \in {io'.llm[1].reply} : SqlOf(reply) = None

\* C13: a Generate SQL click with a non-empty question calls the LLM once
\* with the trimmed question; when the call raises or no SQL is extracted,
\* an error is shown, generated_sql is null and no review section is
\* rendered, current_question is the trimmed question, the history is
\* unchanged and the session stays logged in.
C13_LLMFailure ==
    [][ /\ (LoggedIn /\ event'.click = "Generate SQL" /\ event'.user_question # <<>>) =>
              /\ Len(io'.llm) = 1
              /\ io'.llm[1].question = strip(event'.user_question)
        /\ FailedGeneration =>
              /\ ErrorShown'
              /\ Stored("generated_sql")' = <<None>>
              /\ ~page'.review
              /\ Stored("current_question")' = <<strip(event'.user_question)>>
              /\ Stored("query_history")' = <<query_history>>
              /\ LoggedIn'
              /\ page'.screen = "main"
      ]_vars

\* C13 witness: a generation failed on a reply without SQL, after an earlier
\* one had succeeded and its query had run: the new question is stored
C13_Witness ==
    /\ GenerationRequested
    /\ LoggedIn
    /\ ~io.llm[1].reply.raise
    /\ NewSql = None
    /\ ErrorShown
    /\ generated_sql = None
    /\ current_question = <<"a">>
    /\ query_history # <<>>
    /\ query_history[1].question # current_question

\* C14: a run sends a Run Query click's query to the database, or appends to
\* the history, only in a logged-in session with a non-null generated_sql;
\* generated_sql becomes non-null only by a generation of a logged-in
\* session that found SQL, and a Clear History click or a generation that
\* failed leaves it null; the review section with the Run Query button is
\* rendered exactly on the main page while generated_sql is non-null.
C14_FlowOrdering ==
    [][ /\ (event'.click = "Run Query" /\ io'.queries # <<>>) => UnderReview
        /\ Len(query_history') > Len(query_history) =>
              UnderReview /\ event'.click = "Run Query" /\ io'.queries # <<>>
        /\ (generated_sql' # None /\ generated_sql' # generated_sql) =>
              /\ LoggedIn
              /\ event'.click = "Generate SQL"
              /\ \E reply \in {io'.llm[1].reply} : generated_sql' = SqlOf(reply)
        /\ (LoggedIn /\ event'.click = "Clear History") => generated_sql' = None
        /\ page'.review <=> (page'.screen = "main" /\ generated_sql' # None)
        /\ page'.screen = "main" <=> LoggedIn'
      ]_vars

\* C14 witness: a Run Query click while nothing is under review, the earlier
\* generation undone by one that failed: no query is sent
C14_Witness ==
    /\ LoggedIn
    /\ event.click = "Run Query"
    /\ Stored("raw_response") # <<>>
    /\ generated_sql = None
    /\ current_question # None
    /\ ~page.review
    /\ NoCalls

\* C15: a Run Query click on the review section sends the text of the review
\* box, and nothing else, to the database (nothing when there is no
\* connection); when the query returns, the entry appended holds that text,
\* the current question and the number of rows returned; generated_sql and
\* current_question are left unchanged.
C15_RunsEditedText ==
    [][ (UnderReview /\ event'.click = "Run Query") =>
          /\ io'.queries = (IF conn_cache' = "none" THEN <<>> ELSE <<event'.edited_sql>>)
          /\ SuccessfulRun' =>
                /\ Len(page'.results) = 1
                /\ query_history' = Append(query_history,
                                           [question |-> current_question,
                                            sql |-> io'.queries[1],
                                            rows |-> page'.results[1].len])
          /\ Stored("generated_sql")' = Stored("generated_sql")
          /\ Stored("current_question")' = Stored("current_question")
      ]_vars

\* C15 witness: the review box was edited and the query returned three rows:
\* the edited text was sent and recorded, the generated SQL is still stored
C15_Witness ==
    /\ SuccessfulRun
    /\ event.edited_sql # generated_sql
    /\ io.queries = <<event.edited_sql>>
    /\ query_history[Len(query_history)] =
           [question |-> current_question, sql |-> event.edited_sql, rows |-> 3]

\* C16: a run connects at most once, and only while nothing is memoized;
\* what that one attempt returned, a connection or None, stays memoized
\* through every later run of every session, no later run connects, and
\* every query sent is sent on the memoized connection.
C16_SingleConnection ==
    [][ /\ io'.connects <= 1
        /\ io'.connects = 1 => (conn_cache = "unset" /\ conn_cache' # "unset")
        /\ conn_cache # "unset" => (conn_cache' = conn_cache /\ io'.connects = 0)
        /\ io'.queries # <<>> => conn_cache' = "conn"
      ]_vars

\* C16 witness: the second session ran its first query, which returned rows,
\* on the connection the first session had opened, without connecting
C16_Witness ==
    /\ session = 2
    /\ SuccessfulRun
    /\ Len(query_history) = 1
    /\ io.connects = 0
    /\ conn_cache = "conn"

\* C17: after every run generated_sql is null or a non-empty string, and
\* while it is non-null current_question is non-null; a run that leaves
\* generated_sql non-null either leaves it and current_question as they
\* were, or is a generation that found that SQL for the trimmed question it
\* stored as current_question.
C17_ReviewState ==
    [][ /\ generated_sql' # <<>>
        /\ generated_sql' # None =>
              /\ current_question' # None
              /\ Stored("raw_response")' # <<>>
              /\ \/ /\ generated_sql' = generated_sql
                    /\ current_question' = current_question
                    /\ io'.llm = <<>>
                 \/ /\ LoggedIn
                    /\ event'.click = "Generate SQL"
                    /\ Len(io'.llm) = 1
                    /\ current_question' = strip(event'.user_question)
                    /\ io'.llm[1].question = current_question'
                    /\ \E reply \in {io'.llm[1].reply} : generated_sql' = SqlOf(reply)
      ]_vars

\* C17 witness: a second generation, for another question, found the same
\* SQL as the first: current_question is the question of the second
C17_Witness ==
    /\ GenerationRequested
    /\ LoggedIn
    /\ generated_sql # None
    /\ query_history # <<>>
    /\ query_history[1].sql = generated_sql
    /\ query_history[1].question # current_question
    /\ current_question = strip(event.user_question)

\* C18: the run of a Logout click changes logged_in to false and nothing
\* else of the session state, and shows the login screen; the run that logs
\* the session in again changes logged_in only, and shows the history and,
\* when generated_sql is non-null, the review section.
C18_LogoutKeepsState ==
    [][ /\ (LoggedIn /\ event'.click = "Logout") =>
              /\ session_state' = Set(session_state, "logged_in", FALSE)
              /\ page'.screen = "login"
        /\ (Stored("logged_in") = <<FALSE>> /\ LoggedIn') =>
              /\ session_state' = Set(session_state, "logged_in", TRUE)
              /\ page'.screen = "main"
              /\ ShowsLatest(page'.history, query_history)
              /\ page'.review <=> generated_sql # None
      ]_vars

\* C18 witness: logged in again, with the history and the query under review
\* of before the logout on the page
C18_Witness ==
    /\ event.click = "Login"
    /\ LoggedIn
    /\ page.screen = "main"
    /\ page.review
    /\ generated_sql # None
    /\ page.history # <<>>
    /\ page.history[1] = query_history[Len(query_history)]

===========================================================================
